---- MODULE Spec2Model ----
(***************************************************************************)
(* x-collector-mcp: the spreadsheet append protocol (SheetsService), the   *)
(* tool handlers' run-scoped storage, the collection loop                  *)
(* (TwitterService.collectTweetsNaturally) and the ordered selector        *)
(* fallback (findElementBySelectors / findAllElementsBySelectors).         *)
(***************************************************************************)
EXTENDS Integers, Sequences, FiniteSets, TLC

\* ------------------------------------------------------------------ bounds
\* a single caller: export calls started, records per call
MaxCalls == 3
MaxBatch == 2
\* a single caller beside another writer: calls, records per call, foreign rows
MaxExtCalls == 2
MaxExtBatch == 1
MaxExternal == 1
\* two callers: calls started by both together, records per call
MaxConcCalls == 2
MaxConcBatch == 1
\* the server's tool calls, and the posts one collection ends with
MaxToolCalls == 4
MaxGather == 1

\* collection loop: largest maxTweets argument, post elements on the page,
\* last wall-clock reading
MaxTweetsArg == 4
MaxElems == 4
MaxClock == 1

\* smallest maxTweets argument
MinTweetsArg == 0 - 1

\* posts one scroll is taken to reveal: Math.ceil(maxTweets / 3)
PostsPerScroll == 3

\* selector fallback: longest selector list, elements in the container
MaxSelectors == 3
MaxElements == 2

\* parseEngagement: longest text
MaxTextLen == 4

\* extractTweets: elements of a document, elements of a document of plain
\* elements
MaxDocElems == 3
MaxScanElems == 11

MaxFieldElems == 2

\* extractTweets: shortest text kept, raw length above which a text is
\* cut, characters kept of a cut text
MinTextLen == 5
TextCeiling == 500
TruncateTo == 280

\* the fallback scan: text lengths a candidate lies between, most
\* candidates used
CandidateMinLen == 20
CandidateMaxLen == 1000
CandidateCap == 10

Callers == {1, 2}

VARIABLES
  \* SheetsService fields (services/sheets.ts:16-17): non-null or null
  auth, sheets,
  \* the destination spreadsheet: how many worksheets carry the target title,
  \* and the rows of the target worksheet
  wsCount, sheet,
  \* one export call per caller: its position and its locals
  pc, loc,
  \* history: calls started, completed writes, what the latest finished call
  \* reported, external writes
  ncalls, log, result, nexternal,
  \* history: a setupGoogleSheets call has returned its response
  verified

sheetVars ==
  <<auth, sheets, wsCount, sheet, pc, loc, ncalls, log, result, nexternal, verified>>

VARIABLES
  \* BrowserService.browser / .page and BrowserToolHandler.twitterService:
  \* 0 for null, else the number of the launch the object belongs to
  browser, page, twitterService,
  \* the launched browsers that were not closed
  open,
  \* TwitterToolHandler fields
  isOperating, lastCollectedTweets, lastCollectedProfile,
  \* history: tool calls made, launches made, the posts the latest successful
  \* collection gathered, the profile the latest get_user_profile fetched
  ntools, nlaunch, gathered, fetched,
  \* history: a start_browser succeeded and no close_browser completed since
  session

toolVars == <<browser, page, twitterService, open, isOperating, lastCollectedTweets,
              lastCollectedProfile, ntools, nlaunch, gathered, fetched, session>>

VARIABLES
  \* collectTweetsNaturally: position, config.maxTweets, the loop's i,
  \* scrollCount and tweets
  cpc, maxTweets, ci, scrollCount, tweets,
  \* history: every post the extraction passes returned, in order, and
  \* tweets.length at the start of each iteration
  allSeen, iterLens

collectVars == <<cpc, maxTweets, ci, scrollCount, tweets, allSeen, iterLens>>

VARIABLES
  \* findElementBySelectors / findAllElementsBySelectors: which of the two,
  \* the container (pattern -> matching elements), the selectors argument,
  \* the loop position, the value returned
  selFn, selDoc, selectors, selIdx, selPc, selResult,
  \* history: the patterns handed to querySelector / querySelectorAll
  selQueried

selVars == <<selFn, selDoc, selectors, selIdx, selPc, selResult, selQueried>>

VARIABLES
  \* one call of a function that only computes: which function, its
  \* argument, whether it has returned, the value returned
  callFn, callArg, callPc, callRet

callVars == <<callFn, callArg, callPc, callRet>>

vars == <<sheetVars, toolVars, collectVars, selVars, callVars>>

notSheetVars == <<toolVars, collectVars, selVars, callVars>>

notToolVars == <<collectVars, selVars, callVars>>

\* ------------------------------------------------------------------ data
NoTime == ""
TweetHeaderA == "timestamp_header"
ProfileHeaderA == "username_header"

\* Tweets the exports are fed: column A is tweet.timestamp, which
\* extractTimestamp may leave empty (datetime || textContent || '').
TweetPool ==
  { [id |-> "t1", timestamp |-> "2025-06-15T10:00:00.000Z"],
    [id |-> "t2", timestamp |-> NoTime] }

\* Profiles: column A is profile.username, '' when the page has no handle.
ProfilePool ==
  { [id |-> "u1", username |-> "alice"],
    [id |-> "u2", username |-> ""] }

SeqsUpTo(S, n) == UNION { [1..k -> S] : k \in 1..n }

EmptyRow == [a |-> "", rest |-> <<"empty", "">>, at |-> 0]

\* tweets.map(tweet => [timestamp, author, ..., collectedAt])
TweetRow(tweet, at) == [a |-> tweet.timestamp, rest |-> <<"tweet", tweet.id>>, at |-> at]

\* headers of the tweets worksheet
TweetHeaders == [a |-> TweetHeaderA, rest |-> <<"header", "tweets">>, at |-> 0]

\* profileRow = [username, displayName, ..., collectedAt]
ProfileRow(profile, at) == [a |-> profile.username, rest |-> <<"profile", profile.id>>, at |-> at]

\* headers of the profiles worksheet
ProfileHeaders == [a |-> ProfileHeaderA, rest |-> <<"header", "profiles">>, at |-> 0]

IsHeader(row) == row.rest[1] = "header"

\* ------------------------------------------------------------------ backend
Max(a, b) == IF a >= b THEN a ELSE b

\* spreadsheets.values.get of range A:A: the rows of column A up to the
\* last non-empty cell (trailing empty rows are omitted by the backend);
\* existingData.data.values?.length || 0
ColACount(s) ==
  LET filled == { i \in 1..Len(s) : s[i].a # "" }
  IN  IF filled = {} THEN 0 ELSE CHOOSE i \in filled : \A j \in filled : j <= i

\* entries of a row of dataRows of exportTweetsToSheets, and of profileRow
TweetColumns == 10

ProfileColumns == 8

\* rows of the worksheet holding any value
OccupiedRows(s) == Cardinality({ i \in 1..Len(s) : s[i] # EmptyRow })

\* a write that lands below the last row, whatever range was asked for
UpdateRangeAppend(s, start, values) == s \o values

\* spreadsheets.values.update of the explicit range A<start>:J<start+n-1>
UpdateRange(s, start, values) ==
  [ i \in 1..Max(Len(s), start + Len(values) - 1) |->
      IF i >= start /\ i < start + Len(values) THEN values[i - start + 1]
      ELSE IF i <= Len(s) THEN s[i]
      ELSE EmptyRow ]

\* ------------------------------------------------------------------ export
\* a count carried over from the previous write of this service
ExistingRowCountCached(s) ==
  IF log # <<>> THEN log[Len(log)].start + log[Len(log)].n - 1 ELSE ColACount(s)

\* the count the start row is computed from: the answer of values.get
ExistingRowCount(s) == ColACount(s)

IsFirstData(existingRowCount) == existingRowCount = 0

StartRow(existingRowCount) ==
  IF IsFirstData(existingRowCount) THEN 1 ELSE existingRowCount + 1

DataRows(kind, batch, at) ==
  IF kind = "tweets"
  THEN [ i \in 1..Len(batch) |-> TweetRow(batch[i], at) ]
  ELSE [ i \in 1..Len(batch) |-> ProfileRow(batch[i], at) ]

Headers(kind) == IF kind = "tweets" THEN TweetHeaders ELSE ProfileHeaders

Values(kind, batch, at, existingRowCount) ==
  IF IsFirstData(existingRowCount)
  THEN <<Headers(kind)>> \o DataRows(kind, batch, at)
  ELSE DataRows(kind, batch, at)

\* the spreadsheet as a call found it
NoSnapshot == [wsCount |-> 0, sheet |-> <<>>]

Idle == [kind |-> "none", batch |-> <<>>, src |-> "none", expect |-> <<>>, call |-> 0,
         existingRowCount |-> 0, readAt |-> 0, created |-> FALSE,
         atStart |-> NoSnapshot]

\* the columns of a written row: the entries of dataRows and headers
RowWidth(kind) == IF kind = "tweets" THEN TweetColumns ELSE ProfileColumns

\* the last column of the range asked for: J for posts, H for profiles
LastColumn(kind) == IF kind = "tweets" THEN 10 ELSE 8

NoRange == [first |-> 0, last |-> 0, columns |-> 0]

\* `${worksheet}!A${startRow}:J${startRow + values.length - 1}`
Range(kind, startRow, values) ==
  [first |-> startRow, last |-> startRow + Len(values) - 1, columns |-> LastColumn(kind)]

NoResult == [call |-> 0, tool |-> "none", src |-> "none", expect |-> <<>>, ok |-> FALSE,
             error |-> "none", startRow |-> 0, newDataCount |-> 0, totalRows |-> 0,
             range |-> NoRange, atStart |-> NoSnapshot, step |-> "none",
             code |-> "none"]

\* the code of the McpError the CallTool handler ends with: whatever is
\* thrown inside its try block, the "Unknown tool" error included, is
\* caught and thrown again as an InternalError
ReportedCode(error) == IF error = "none" THEN "none" ELSE "InternalError"

\* what a finished tool call reported
Result(call, tool, src, expect, error, startRow, newDataCount, totalRows) ==
  [call |-> call, tool |-> tool, src |-> src, expect |-> expect, ok |-> error = "none",
   error |-> error, startRow |-> startRow, newDataCount |-> newDataCount,
   totalRows |-> totalRows, range |-> NoRange, atStart |-> NoSnapshot, step |-> "none",
   code |-> ReportedCode(error)]

\* export_tweets_to_sheets takes a non-empty list, export_profile_to_sheets one profile
Batches(kind, maxBatch) ==
  IF kind = "tweets" THEN SeqsUpTo(TweetPool, maxBatch) ELSE SeqsUpTo(ProfilePool, 1)

\* exportTweetsToSheets / exportProfileToSheets up to the first await:
\* the lazy client setup when this.sheets is null, else ensureWorksheetExists
\* the client is set up at every call
NeedsSetupAlways(kind) == TRUE

\* if (!this.sheets) / if (!this.sheets || !this.auth): the operation sets
\* the client up itself; setupGoogleSheets does so whenever it is called
NeedsSetup(kind) ==
  CASE kind = "setup" -> TRUE
    [] kind = "list" -> ~sheets \/ ~auth
    [] OTHER -> ~sheets

\* SheetsService.isReady()
IsReady == auth /\ sheets

\* where an operation continues once the client is there
AfterSetup(kind) == IF kind \in {"tweets", "profile"} THEN "ensureGet" ELSE kind

ExportStart(c, kind, batch, src, expect) ==
  /\ pc[c] = "idle"
  /\ ncalls' = ncalls + 1
  /\ loc' = [loc EXCEPT ![c] = [Idle EXCEPT !.kind = kind, !.batch = batch, !.src = src,
                                            !.expect = expect, !.call = ncalls + 1,
                                            !.atStart = [wsCount |-> wsCount,
                                                         sheet |-> sheet]]]
  /\ IF NeedsSetup(kind)
     THEN /\ auth' = TRUE
          /\ sheets' = TRUE
          /\ pc' = [pc EXCEPT ![c] = "setup"]
     ELSE /\ UNCHANGED <<auth, sheets>>
          /\ pc' = [pc EXCEPT ![c] = AfterSetup(kind)]
  /\ UNCHANGED <<wsCount, sheet, log, result, nexternal, verified>>

\* setupGoogleSheets: auth.getClient() resolved
SetupDone(c) ==
  /\ pc[c] = "setup"
  /\ loc[c].kind # "setup"
  /\ pc' = [pc EXCEPT ![c] = AfterSetup(loc[c].kind)]
  /\ verified' = TRUE
  /\ UNCHANGED <<auth, sheets, wsCount, sheet, loc, ncalls, log, result, nexternal>>
  /\ UNCHANGED notSheetVars

\* setup_google_sheets, createMasterSheet or listAvailableSheets returns its
\* response: the worksheet is not touched
OperationDone(c) ==
  /\ \/ pc[c] = "setup" /\ loc[c].kind = "setup"
     \/ pc[c] \in {"create", "list"}
  /\ result' = Result(loc[c].call, loc[c].kind, "none", <<>>, "none", 0, 0, 0)
  /\ verified' = (verified \/ loc[c].kind = "setup")
  /\ pc' = [pc EXCEPT ![c] = "idle"]
  /\ loc' = [loc EXCEPT ![c] = Idle]
  /\ UNCHANGED <<auth, sheets, wsCount, sheet, ncalls, log, nexternal>>
  /\ UNCHANGED notSheetVars

\* a lookup that finds the worksheet whatever the spreadsheet holds
WorksheetExistsAlways(count) == TRUE

\* existingSheets.some(sheet => sheet.properties?.title === worksheetName)
WorksheetExists(count) == count > 0

\* ensureWorksheetExists: spreadsheets.get answered
EnsureGet(c) ==
  /\ pc[c] = "ensureGet"
  /\ pc' = [pc EXCEPT ![c] = IF WorksheetExists(wsCount) THEN "read" ELSE "ensureAdd"]
  /\ UNCHANGED <<auth, sheets, verified, wsCount, sheet, loc, ncalls, log, result, nexternal>>
  /\ UNCHANGED notSheetVars

\* ensureWorksheetExists: batchUpdate addSheet answered (the backend refuses a
\* second worksheet of the same title, see BackendFail)
EnsureAdd(c) ==
  /\ pc[c] = "ensureAdd"
  /\ wsCount = 0
  /\ wsCount' = 1
  /\ loc' = [loc EXCEPT ![c].created = TRUE]
  /\ pc' = [pc EXCEPT ![c] = "read"]
  /\ UNCHANGED <<auth, sheets, verified, sheet, ncalls, log, result, nexternal>>
  /\ UNCHANGED notSheetVars

\* values.get A:A answered: existingRowCount is taken from this answer
ReadCount(c) ==
  /\ pc[c] = "read"
  /\ loc' = [loc EXCEPT ![c].existingRowCount = ExistingRowCount(sheet),
                        ![c].readAt = Len(log)]
  /\ pc' = [pc EXCEPT ![c] = "write"]
  /\ UNCHANGED <<auth, sheets, verified, wsCount, sheet, ncalls, log, result, nexternal>>
  /\ UNCHANGED notSheetVars

\* values.update answered, and the result is built
WriteValues(c) ==
  /\ pc[c] = "write"
  /\ LET l == loc[c]
         values == Values(l.kind, l.batch, l.call, l.existingRowCount)
         startRow == StartRow(l.existingRowCount)
         after == UpdateRange(sheet, startRow, values)
         newDataCount == Len(l.batch)
         totalRows == IF IsFirstData(l.existingRowCount)
                      THEN newDataCount + 1
                      ELSE l.existingRowCount + newDataCount
     IN  /\ sheet' = after
         /\ log' = Append(log, [call |-> l.call, caller |-> c, kind |-> l.kind,
                                src |-> l.src, expect |-> l.expect, batch |-> l.batch,
                                k |-> newDataCount, count |-> l.existingRowCount,
                                readAt |-> l.readAt, created |-> l.created,
                                start |-> startRow,
                                n |-> Len(values), values |-> values,
                                before |-> sheet, after |-> after])
         /\ result' = [Result(l.call, l.kind, l.src, l.expect, "none",
                               startRow, newDataCount, totalRows)
                          EXCEPT !.range = Range(l.kind, startRow, values),
                                 !.atStart = l.atStart]
  /\ pc' = [pc EXCEPT ![c] = "idle"]
  /\ loc' = [loc EXCEPT ![c] = Idle]
  /\ UNCHANGED <<auth, sheets, verified, wsCount, ncalls, nexternal>>
  /\ UNCHANGED notSheetVars

\* any awaited backend request rejects: the catch block rethrows
BackendFail(c) ==
  /\ pc[c] \in {"setup", "ensureGet", "ensureAdd", "read", "write", "create", "list"}
  /\ result' = [Result(loc[c].call, loc[c].kind, loc[c].src, loc[c].expect,
                        "backend", 0, 0, 0)
                   EXCEPT !.atStart = loc[c].atStart, !.step = pc[c]]
  /\ pc' = [pc EXCEPT ![c] = "idle"]
  /\ loc' = [loc EXCEPT ![c] = Idle]
  /\ UNCHANGED <<auth, sheets, verified, wsCount, sheet, ncalls, log, nexternal>>
  /\ UNCHANGED notSheetVars

\* another writer of the shared worksheet appends a row below the last one
ExternalRows == { [a |-> "x", rest |-> <<"external", "">>, at |-> 0],
                  [a |-> "", rest |-> <<"external", "">>, at |-> 0] }

ExternalAppend(row) ==
  /\ wsCount > 0
  /\ nexternal < MaxExternal
  /\ nexternal' = nexternal + 1
  /\ sheet' = Append(sheet, row)
  /\ UNCHANGED <<auth, sheets, verified, wsCount, pc, loc, ncalls, log, result>>
  /\ UNCHANGED notSheetVars

AllIdle == \A c \in Callers : pc[c] = "idle"

NoProfile == <<>>

InitTools ==
  /\ browser = 0
  /\ page = 0
  /\ twitterService = 0
  /\ open = {}
  /\ isOperating = FALSE
  /\ lastCollectedTweets = <<>>
  /\ lastCollectedProfile = NoProfile
  /\ ntools = 0
  /\ nlaunch = 0
  /\ session = FALSE
  /\ gathered = <<>>
  /\ fetched = NoProfile

InitSheetsService ==
  /\ auth = FALSE
  /\ verified = FALSE
  /\ sheets = FALSE
  /\ wsCount \in {0, 1}
  /\ sheet = <<>>
  /\ pc = [c \in Callers |-> "idle"]
  /\ loc = [c \in Callers |-> Idle]
  /\ ncalls = 0
  /\ log = <<>>
  /\ result = NoResult
  /\ nexternal = 0

\* no collection and no selector search under way
InitCollectIdle ==
  /\ cpc = "idle"
  /\ maxTweets = 0
  /\ ci = 0
  /\ scrollCount = 0
  /\ tweets = <<>>
  /\ allSeen = <<>>
  /\ iterLens = <<>>

InitSelIdle ==
  /\ selFn = "none"
  /\ selDoc = <<>>
  /\ selectors = <<>>
  /\ selIdx = 0
  /\ selPc = "idle"
  /\ selResult = <<>>
  /\ selQueried = <<>>

InitCallIdle ==
  /\ callFn = "none"
  /\ callArg = <<>>
  /\ callPc = "idle"
  /\ callRet = <<>>

\* everything but the SheetsService and the tool handlers at rest
InitRest == InitCollectIdle /\ InitSelIdle /\ InitCallIdle

InitSheets == InitSheetsService /\ InitTools /\ InitRest

\* ---- a single caller, one call at a time, no other writer
ExportStep(c) ==
  \/ SetupDone(c)
  \/ EnsureGet(c)
  \/ EnsureAdd(c)
  \/ ReadCount(c)
  \/ WriteValues(c)
  \/ BackendFail(c)

SeqStart ==
  /\ AllIdle
  /\ ncalls < MaxCalls
  /\ \E kind \in {"tweets", "profile"} : \E batch \in Batches(kind, MaxBatch) :
       ExportStart(1, kind, batch, "args", batch) /\ UNCHANGED notSheetVars

NextSheetsSeq ==
  \/ SeqStart
  \/ ExportStep(1)

SpecSheetsSeq == InitSheets /\ [][NextSheetsSeq]_vars

\* ---- a single caller, one call at a time, and another writer between calls
ExternalStep ==
  /\ AllIdle
  /\ \E row \in ExternalRows : ExternalAppend(row)

ExtStart ==
  /\ AllIdle
  /\ ncalls < MaxExtCalls
  /\ \E kind \in {"tweets", "profile"} : \E batch \in Batches(kind, MaxExtBatch) :
       ExportStart(1, kind, batch, "args", batch) /\ UNCHANGED notSheetVars

NextSheetsExt ==
  \/ ExtStart
  \/ ExportStep(1)
  \/ ExternalStep

SpecSheetsExt == InitSheets /\ [][NextSheetsExt]_vars

\* ---- two callers whose calls interleave at every await
ConcStart(c) ==
  /\ ncalls < MaxConcCalls
  /\ \E kind \in {"tweets", "profile"} : \E batch \in Batches(kind, MaxConcBatch) :
       ExportStart(c, kind, batch, "args", batch) /\ UNCHANGED notSheetVars

NextSheetsConc ==
  \E c \in Callers :
    \/ ConcStart(c)
    \/ ExportStep(c)

SpecSheetsConc == InitSheets /\ [][NextSheetsConc]_vars

\* ------------------------------------------------------------------ tools
\* the three posts handleCollectTweetsNaturally stores after a collection
SampleTweets ==
  << [id |-> "tweet_now_1", timestamp |-> "now"],
     [id |-> "tweet_now_2", timestamp |-> "now-1d"],
     [id |-> "tweet_now_3", timestamp |-> "now-2d"] >>

\* the posts the collection loop can end with
Collectable == {<<>>} \cup SeqsUpTo(TweetPool, MaxGather)

\* a tool call ends without reaching SheetsService
ToolResult(tool, src, expect, error) ==
  result' = Result(0, tool, src, expect, error, 0, 0, 0)

ToolCall ==
  /\ AllIdle
  /\ ntools < MaxToolCalls
  /\ ntools' = ntools + 1

\* what handleCollectTweetsNaturally keeps of a finished collection
StoredAfterCollect(collected) == SampleTweets

\* what handleSearchTweets keeps of a finished search
StoredAfterSearch(collected) == lastCollectedTweets

\* what handleGetUserProfile keeps of the fetched profile
StoredAfterGetProfile(profile) == lastCollectedProfile

\* start_browser: puppeteer.launch, newPage and the page setup, then
\* handleStartBrowser wraps the page in a TwitterService
StartBrowserTool ==
  /\ ToolCall
  /\ \/ \* puppeteer.launch rejects
        /\ ToolResult("start_browser", "none", <<>>, "launch")
        /\ UNCHANGED <<browser, page, twitterService, open, nlaunch, session>>
     \/ \* the browser is up, newPage or the page setup rejects
        /\ nlaunch' = nlaunch + 1
        /\ browser' = nlaunch + 1
        /\ open' = open \cup {nlaunch + 1}
        /\ \E pageMade \in BOOLEAN :
             page' = IF pageMade THEN nlaunch + 1 ELSE page
        /\ ToolResult("start_browser", "none", <<>>, "launch")
        /\ UNCHANGED <<twitterService, session>>
     \/ /\ nlaunch' = nlaunch + 1
        /\ browser' = nlaunch + 1
        /\ open' = open \cup {nlaunch + 1}
        /\ page' = nlaunch + 1
        /\ twitterService' = nlaunch + 1
        /\ session' = TRUE
        /\ ToolResult("start_browser", "none", <<>>, "none")
  /\ UNCHANGED <<isOperating, lastCollectedTweets, lastCollectedProfile, gathered, fetched>>
  /\ UNCHANGED <<auth, sheets, verified, wsCount, sheet, pc, loc, ncalls, log, nexternal>>
  /\ UNCHANGED notToolVars

\* the TwitterService outlives close_browser
ServiceKeptAfterClose(service) == service

\* this.twitterService = null
ServiceAfterClose(service) == 0

\* close_browser: browser.close() when a browser is held, then
\* handleCloseBrowser drops the TwitterService
CloseBrowserTool ==
  /\ ToolCall
  /\ \/ /\ browser # 0
        /\ \/ /\ open' = open \ {browser}
              /\ browser' = 0
              /\ page' = 0
              /\ twitterService' = ServiceAfterClose(twitterService)
              /\ session' = FALSE
              /\ ToolResult("close_browser", "none", <<>>, "none")
           \/ \* browser.close() rejects
              /\ ToolResult("close_browser", "none", <<>>, "close")
              /\ UNCHANGED <<browser, page, twitterService, open, session>>
     \/ /\ browser = 0
        /\ twitterService' = ServiceAfterClose(twitterService)
        /\ session' = FALSE
        /\ ToolResult("close_browser", "none", <<>>, "none")
        /\ UNCHANGED <<browser, page, open>>
  /\ UNCHANGED <<isOperating, lastCollectedTweets, lastCollectedProfile, nlaunch, gathered, fetched>>
  /\ UNCHANGED <<auth, sheets, verified, wsCount, sheet, pc, loc, ncalls, log, nexternal>>
  /\ UNCHANGED notToolVars

\* collect_tweets_naturally
CollectTweetsTool ==
  /\ ToolCall
  /\ \/ /\ twitterService = 0
        /\ ToolResult("collect_tweets_naturally", "none", <<>>, "notready")
        /\ UNCHANGED <<isOperating, lastCollectedTweets, gathered>>
     \/ /\ twitterService # 0
        /\ \/ \E collected \in Collectable :
                /\ gathered' = collected
                /\ lastCollectedTweets' = StoredAfterCollect(collected)
                /\ isOperating' = FALSE
                /\ ToolResult("collect_tweets_naturally", "none", <<>>, "none")
           \/ \* TwitterService.collectTweetsNaturally throws
              /\ isOperating' = FALSE
              /\ ToolResult("collect_tweets_naturally", "none", <<>>, "collect")
              /\ UNCHANGED <<lastCollectedTweets, gathered>>
  /\ UNCHANGED <<browser, page, twitterService, open, lastCollectedProfile, nlaunch, session, fetched>>
  /\ UNCHANGED <<auth, sheets, verified, wsCount, sheet, pc, loc, ncalls, log, nexternal>>
  /\ UNCHANGED notToolVars

\* search_tweets: page.goto, then the same collection loop
SearchTweetsTool ==
  /\ ToolCall
  /\ \/ /\ twitterService = 0
        /\ ToolResult("search_tweets", "none", <<>>, "notready")
        /\ UNCHANGED <<lastCollectedTweets, gathered>>
     \/ /\ twitterService # 0
        /\ \/ \E collected \in Collectable :
                /\ gathered' = collected
                /\ lastCollectedTweets' = StoredAfterSearch(collected)
                /\ ToolResult("search_tweets", "none", <<>>, "none")
           \/ /\ ToolResult("search_tweets", "none", <<>>, "collect")
              /\ UNCHANGED <<lastCollectedTweets, gathered>>
  /\ UNCHANGED <<browser, page, twitterService, open, isOperating, lastCollectedProfile,
                 nlaunch, session, fetched>>
  /\ UNCHANGED <<auth, sheets, verified, wsCount, sheet, pc, loc, ncalls, log, nexternal>>
  /\ UNCHANGED notToolVars

\* get_user_profile
GetUserProfileTool ==
  /\ ToolCall
  /\ \/ /\ twitterService = 0
        /\ ToolResult("get_user_profile", "none", <<>>, "notready")
        /\ UNCHANGED <<lastCollectedProfile, fetched>>
     \/ /\ twitterService # 0
        /\ \/ \E profile \in ProfilePool :
                /\ fetched' = <<profile>>
                /\ lastCollectedProfile' = StoredAfterGetProfile(profile)
                /\ ToolResult("get_user_profile", "none", <<>>, "none")
           \/ \* page.evaluate rejects
              /\ ToolResult("get_user_profile", "none", <<>>, "profile")
              /\ UNCHANGED <<lastCollectedProfile, fetched>>
  /\ UNCHANGED <<browser, page, twitterService, open, isOperating, lastCollectedTweets,
                 nlaunch, session, gathered>>
  /\ UNCHANGED <<auth, sheets, verified, wsCount, sheet, pc, loc, ncalls, log, nexternal>>
  /\ UNCHANGED notToolVars

\* a tool whose handler only checks for the TwitterService and calls it:
\* the service call returns or throws, nothing is stored
ServiceTool(tool) ==
  /\ ToolCall
  /\ \/ /\ twitterService = 0
        /\ ToolResult(tool, "none", <<>>, "notready")
     \/ /\ twitterService # 0
        /\ \E error \in {"none", "page"} : ToolResult(tool, "none", <<>>, error)
  /\ UNCHANGED <<browser, page, twitterService, open, isOperating, lastCollectedTweets,
                 lastCollectedProfile, nlaunch, session, gathered, fetched>>
  /\ UNCHANGED <<auth, sheets, verified, wsCount, sheet, pc, loc, ncalls, log, nexternal>>
  /\ UNCHANGED notToolVars

\* navigate_to_user
NavigateToUserTool == ServiceTool("navigate_to_user")

\* check_login_status
CheckLoginStatusTool == ServiceTool("check_login_status")

\* debug_page_structure
DebugPageStructureTool == ServiceTool("debug_page_structure")

\* test_tweet_selectors: the TwitterService check, then the page of the
\* BrowserService
TestTweetSelectorsTool ==
  /\ ToolCall
  /\ \/ /\ twitterService = 0
        /\ ToolResult("test_tweet_selectors", "none", <<>>, "notready")
     \/ /\ twitterService # 0
        /\ page = 0
        /\ ToolResult("test_tweet_selectors", "none", <<>>, "nopage")
     \/ /\ twitterService # 0
        /\ page # 0
        /\ \E error \in {"none", "page"} :
             ToolResult("test_tweet_selectors", "none", <<>>, error)
  /\ UNCHANGED <<browser, page, twitterService, open, isOperating, lastCollectedTweets,
                 lastCollectedProfile, nlaunch, session, gathered, fetched>>
  /\ UNCHANGED <<auth, sheets, verified, wsCount, sheet, pc, loc, ncalls, log, nexternal>>
  /\ UNCHANGED notToolVars

\* the tweets argument of export_tweets_to_sheets: absent, or a list
TweetsArgs == {<<>>} \cup { <<"given", b>> : b \in SeqsUpTo(TweetPool, 1) }

\* export_tweets_to_sheets: args.tweets || lastCollectedTweets, the handler's
\* guard, then SheetsService.exportTweetsToSheets
ExportTweetsTool ==
  /\ ToolCall
  /\ \E arg \in TweetsArgs :
       LET src == IF arg = <<>> THEN "last" ELSE "args"
           toExport == IF arg = <<>> THEN lastCollectedTweets ELSE arg[2]
           expect == IF arg = <<>> THEN gathered ELSE arg[2]
       IN  IF Len(toExport) = 0
           THEN /\ ToolResult("tweets", src, expect, "nodata")
                /\ UNCHANGED <<auth, sheets, verified, pc, loc, ncalls>>
           ELSE /\ ExportStart(1, "tweets", toExport, src, expect)
                /\ UNCHANGED result
  /\ UNCHANGED <<browser, page, twitterService, open, isOperating, lastCollectedTweets,
                 lastCollectedProfile, nlaunch, session, gathered, fetched>>
  /\ UNCHANGED <<wsCount, sheet, log, nexternal>>
  /\ UNCHANGED notToolVars

\* the profile argument of export_profile_to_sheets: absent, or a profile
ProfileArgs == {<<>>} \cup { <<"given", <<p>> >> : p \in ProfilePool }

\* export_profile_to_sheets: args.profile || lastCollectedProfile, the
\* handler's guard, then SheetsService.exportProfileToSheets
ExportProfileTool ==
  /\ ToolCall
  /\ \E arg \in ProfileArgs :
       LET src == IF arg = <<>> THEN "last" ELSE "args"
           profile == IF arg = <<>> THEN lastCollectedProfile ELSE arg[2]
           expect == IF arg = <<>> THEN fetched ELSE arg[2]
       IN  IF profile = NoProfile
           THEN /\ ToolResult("profile", src, expect, "nodata")
                /\ UNCHANGED <<auth, sheets, verified, pc, loc, ncalls>>
           ELSE /\ ExportStart(1, "profile", profile, src, expect)
                /\ UNCHANGED result
  /\ UNCHANGED <<browser, page, twitterService, open, isOperating, lastCollectedTweets,
                 lastCollectedProfile, nlaunch, session, gathered, fetched>>
  /\ UNCHANGED <<wsCount, sheet, log, nexternal>>
  /\ UNCHANGED notToolVars

\* setup_google_sheets, create_master_sheet, list_available_sheets: the
\* handler passes the call on to the SheetsService
SheetsServiceTool(kind) ==
  /\ ToolCall
  /\ ExportStart(1, kind, <<>>, "none", <<>>)
  /\ UNCHANGED <<browser, page, twitterService, open, isOperating, lastCollectedTweets,
                 lastCollectedProfile, nlaunch, session, gathered, fetched>>
  /\ UNCHANGED notToolVars

SetupGoogleSheetsTool == SheetsServiceTool("setup")

CreateMasterSheetTool == SheetsServiceTool("create")

ListAvailableSheetsTool == SheetsServiceTool("list")

\* ---- the four handlers the CallTool handler asks in turn
Handlers == <<"browser", "twitter", "sheets", "drive">>

\* the names of getToolDefinitions() of a handler
ToolDefinitions(handler) ==
  CASE handler = "browser" -> {"start_browser", "take_screenshot", "close_browser"}
    [] handler = "twitter" ->
         {"navigate_to_user", "check_login_status", "collect_tweets_naturally",
          "get_user_profile", "search_tweets", "pause_for_human_interaction",
          "debug_page_structure", "test_tweet_selectors"}
    [] handler = "sheets" ->
         {"setup_google_sheets", "create_master_sheet", "export_tweets_to_sheets",
          "export_profile_to_sheets", "list_available_sheets"}
    [] handler = "drive" ->
         {"setup_google_drive", "list_shared_drives", "list_folders_in_shared_drive",
          "create_folder_in_shared_drive", "create_spreadsheet_in_shared_drive",
          "upload_file_to_shared_drive", "create_x_collection_project"}

\* the case labels of handleTool of a handler: for any other name it
\* returns null
HandledNames(handler) ==
  CASE handler = "browser" -> {"start_browser", "take_screenshot", "close_browser"}
    [] handler = "twitter" ->
         {"navigate_to_user", "check_login_status", "collect_tweets_naturally",
          "get_user_profile", "search_tweets", "pause_for_human_interaction",
          "debug_page_structure", "test_tweet_selectors"}
    [] handler = "sheets" ->
         {"setup_google_sheets", "create_master_sheet", "export_tweets_to_sheets",
          "export_profile_to_sheets", "list_available_sheets"}
    [] handler = "drive" ->
         {"setup_google_drive", "list_shared_drives", "list_folders_in_shared_drive",
          "create_folder_in_shared_drive", "create_spreadsheet_in_shared_drive",
          "upload_file_to_shared_drive", "create_x_collection_project"}

\* the handlers whose handleTool answers the name with a response
Answering(name) == {k \in 1..Len(Handlers) : name \in HandledNames(Handlers[k])}

\* names a client may send that no handler has a case for
OtherNames == {"no_such_tool", "export_tweets"}

\* a call of a name every handleTool returns null for: throw new
\* McpError(MethodNotFound) inside the try block, caught by its catch
UnknownToolCall ==
  /\ ToolCall
  /\ \E name \in OtherNames :
       /\ Answering(name) = {}
       /\ ToolResult(name, "none", <<>>, "unknown")
  /\ UNCHANGED <<browser, page, twitterService, open, isOperating, lastCollectedTweets,
                 lastCollectedProfile, nlaunch, gathered, fetched, session>>
  /\ UNCHANGED <<auth, sheets, verified, wsCount, sheet, pc, loc, ncalls, log, nexternal>>
  /\ UNCHANGED notToolVars

\* ---- the server: one tool call at a time
Next ==
  \/ UnknownToolCall
  \/ StartBrowserTool
  \/ CloseBrowserTool
  \/ CollectTweetsTool
  \/ SearchTweetsTool
  \/ GetUserProfileTool
  \/ NavigateToUserTool
  \/ CheckLoginStatusTool
  \/ DebugPageStructureTool
  \/ TestTweetSelectorsTool
  \/ ExportTweetsTool
  \/ ExportProfileTool
  \/ SetupGoogleSheetsTool
  \/ CreateMasterSheetTool
  \/ ListAvailableSheetsTool
  \/ ExportStep(1)
  \/ OperationDone(1)

Init == InitSheetsService /\ InitTools /\ InitRest

Spec == Init /\ [][Next]_vars

\* ------------------------------------------------------------------ collection
\* the elements of S, smallest first
SetToSortedSeq(S) ==
  [k \in 1..Cardinality(S) |-> CHOOSE x \in S : Cardinality({y \in S : y < x}) = k - 1]

\* tweet_${Date.now()}_${index}
TweetId(now, index) == <<"tweet", now, index>>

\* one extractTweets() call: the page holds MaxElems post elements, the ones
\* with usable text (kept) yield a post whose id carries the wall-clock
\* reading and the element's index; pass tells the instances of successive
\* calls apart
ExtractTweets(now, kept, pass) ==
  LET idx == SetToSortedSeq(kept)
  IN  [k \in 1..Len(idx) |-> [id |-> TweetId(now, idx[k]), pass |-> pass]]

\* !tweets.find(t => t.id === tweet.id), with the posts of the same id but
\* another instance taken for new
IsNewByInstance(list, tweet) == \A k \in 1..Len(list) : list[k] # tweet

\* !tweets.find(t => t.id === tweet.id)
IsNew(list, tweet) == \A k \in 1..Len(list) : list[k].id # tweet.id

\* for (const tweet of pageTweets) { if (new && tweets.length < maxTweets) push }
RECURSIVE Merge(_, _, _)
Merge(list, pageTweets, limit) ==
  IF pageTweets = <<>>
  THEN list
  ELSE Merge(IF IsNew(list, Head(pageTweets)) /\ Len(list) < limit
             THEN Append(list, Head(pageTweets))
             ELSE list,
             Tail(pageTweets), limit)

\* maxScrolls, with one pass too many when maxTweets is a multiple of three
MaxScrollsFloor(limit) == (limit \div PostsPerScroll) + 1

\* Math.ceil(maxTweets / 3)
MaxScrolls(limit) == (limit + PostsPerScroll - 1) \div PostsPerScroll

\* i < maxScrolls && tweets.length < maxTweets
LoopCondition == ci < MaxScrolls(maxTweets) /\ Len(tweets) < maxTweets

\* collectTweetsNaturally is entered: tweets = [], scrollCount = 0
InitCollectLoop ==
  /\ maxTweets \in MinTweetsArg..MaxTweetsArg
  /\ cpc = "loop"
  /\ ci = 0
  /\ scrollCount = 0
  /\ tweets = <<>>
  /\ allSeen = <<>>
  /\ iterLens = <<>>

\* one iteration of the loop: mouse move, scroll, reading delay, extraction,
\* merge, delay, scrollCount++
CollectIterate ==
  /\ cpc = "loop"
  /\ LoopCondition
  /\ \E now \in 0..MaxClock : \E kept \in SUBSET (0..(MaxElems - 1)) :
       LET pageTweets == ExtractTweets(now, kept, ci + 1)
       IN  /\ tweets' = Merge(tweets, pageTweets, maxTweets)
           /\ allSeen' = allSeen \o pageTweets
  /\ iterLens' = Append(iterLens, Len(tweets))
  /\ ci' = ci + 1
  /\ scrollCount' = scrollCount + 1
  /\ UNCHANGED <<cpc, maxTweets>>
  /\ UNCHANGED <<sheetVars, toolVars, selVars, callVars>>

\* the loop condition fails: return { tweets, scrollCount, ... }
CollectReturn ==
  /\ cpc = "loop"
  /\ ~LoopCondition
  /\ cpc' = "done"
  /\ UNCHANGED <<maxTweets, ci, scrollCount, tweets, allSeen, iterLens>>
  /\ UNCHANGED <<sheetVars, toolVars, selVars, callVars>>

\* an awaited page operation of an iteration rejects: catch, throw new Error
CollectThrow ==
  /\ cpc = "loop"
  /\ LoopCondition
  /\ cpc' = "failed"
  /\ UNCHANGED <<maxTweets, ci, scrollCount, tweets, allSeen, iterLens>>
  /\ UNCHANGED <<sheetVars, toolVars, selVars, callVars>>

NextCollect ==
  \/ CollectIterate
  \/ CollectReturn
  \/ CollectThrow

InitCollect == InitSheetsService /\ InitTools /\ InitCollectLoop /\ InitSelIdle /\ InitCallIdle

SpecCollect == InitCollect /\ [][NextCollect]_vars

\* every awaited delay and page operation settles
SpecCollectFair == InitCollect /\ [][NextCollect]_vars /\ WF_vars(NextCollect)

\* ------------------------------------------------------------------ selectors
SelectorPatterns == {"p1", "p2", "p3"}

Null == <<>>

\* container.querySelectorAll(selector), in document order
QuerySelectorAll(doc, selector) == SetToSortedSeq(doc[selector])

\* container.querySelector(selector): the first match in document order
QuerySelector(doc, selector) ==
  IF doc[selector] = {} THEN Null ELSE <<QuerySelectorAll(doc, selector)[1]>>

\* the lookup each function makes for one pattern
Lookup(fn, doc, selector) ==
  IF fn = "first" THEN QuerySelector(doc, selector) ELSE QuerySelectorAll(doc, selector)

\* a lookup that found nothing taken for a match (if (elements) return elements)
IsMatchTruthy(found) == TRUE

\* if (element) / if (elements.length > 0)
IsMatch(found) == found # <<>>

\* a call of one of the two functions with a container and a selector list
InitSelLoop ==
  /\ selFn \in {"first", "all"}
  /\ selDoc \in [SelectorPatterns -> SUBSET (1..MaxElements)]
  /\ selectors \in SeqsUpTo(SelectorPatterns, MaxSelectors)
  /\ selIdx = 1
  /\ selPc = "loop"
  /\ selResult = Null
  /\ selQueried = <<>>

\* for (const selector of selectors): query, return on a match
SelTry ==
  /\ selPc = "loop"
  /\ selIdx <= Len(selectors)
  /\ LET found == Lookup(selFn, selDoc, selectors[selIdx])
     IN  IF IsMatch(found)
         THEN /\ selResult' = found
              /\ selPc' = "done"
              /\ UNCHANGED selIdx
         ELSE /\ selIdx' = selIdx + 1
              /\ UNCHANGED <<selResult, selPc>>
  /\ selQueried' = Append(selQueried, selectors[selIdx])
  /\ UNCHANGED <<selFn, selDoc, selectors>>
  /\ UNCHANGED <<sheetVars, toolVars, collectVars, callVars>>

\* the list is exhausted: return null / return []
SelExhausted ==
  /\ selPc = "loop"
  /\ selIdx > Len(selectors)
  /\ selResult' = Null
  /\ selPc' = "done"
  /\ UNCHANGED <<selFn, selDoc, selectors, selIdx, selQueried>>
  /\ UNCHANGED <<sheetVars, toolVars, collectVars, callVars>>

NextSel ==
  \/ SelTry
  \/ SelExhausted

InitSel == InitSheetsService /\ InitTools /\ InitCollectIdle /\ InitSelLoop /\ InitCallIdle

SpecSel == InitSel /\ [][NextSel]_vars

\* ------------------------------------------------------------------ parseEngagement
\* a text is a sequence of characters; a number is the sequence of its
\* decimal digits, most significant first, without leading zeros
DigitChars == {"0", "1", "2", "3", "4", "5", "6", "7", "8", "9"}

SuffixChars == {"K", "M", "B", "k", "m", "b"}

DigitOf(c) ==
  CASE c = "0" -> 0 [] c = "1" -> 1 [] c = "2" -> 2 [] c = "3" -> 3 [] c = "4" -> 4
    [] c = "5" -> 5 [] c = "6" -> 6 [] c = "7" -> 7 [] c = "8" -> 8 [] c = "9" -> 9

\* the characters parseEngagement is called with
TextAlphabet == {"0", "1", ",", ".", "K", "m", "B", " ", "e"}

\* a JavaScript number: NaN, or the integer with these decimal digits
Number(d) == [nan |-> FALSE, digits |-> d]

NaN == [nan |-> TRUE, digits |-> <<>>]

Zero == Number(<<0>>)

\* the digits of a run of digit and comma characters: replace(/,/g, '')
DigitsOf(s) ==
  LET kept == SelectSeq(s, LAMBDA c : c \in DigitChars)
  IN  [k \in 1..Len(kept) |-> DigitOf(kept[k])]

\* the integer a digit sequence denotes: leading zeros dropped
RECURSIVE Normalize(_)
Normalize(d) ==
  IF d = <<>> THEN <<0>>
  ELSE IF Len(d) > 1 /\ Head(d) = 0 THEN Normalize(Tail(d))
  ELSE d

\* length of the longest run of characters of class cls in s from position p
RunLen(s, p, cls) ==
  CHOOSE n \in 0..(Len(s) - p + 1) :
    /\ \A k \in p..(p + n - 1) : s[k] \in cls
    /\ (p + n > Len(s) \/ s[p + n] \notin cls)

\* text.replace(/[^\d.,KMBkmb]/gi, '')
CleanText(text) ==
  SelectSeq(text, LAMBDA c : c \in DigitChars \cup {".", ","} \cup SuffixChars)

NoMatch == [found |-> FALSE, int |-> <<>>, frac |-> <<>>, suffix |-> ""]

\* s.match(/([\d,]+\.?\d*)\s*([KMBkmb]?)/i): the leftmost match, every part
\* greedy; int and frac are the characters of group 1 before and after the
\* period, suffix is group 2
MatchNumber(s) ==
  LET starts == {p \in 1..Len(s) : s[p] \in DigitChars \cup {","}}
  IN  IF starts = {} THEN NoMatch
      ELSE LET p == CHOOSE x \in starts : \A y \in starts : x <= y
               n1 == RunLen(s, p, DigitChars \cup {","})
               dot == p + n1 <= Len(s) /\ s[p + n1] = "."
               n2 == IF dot THEN RunLen(s, p + n1 + 1, DigitChars) ELSE 0
               q0 == p + n1 + (IF dot THEN 1 + n2 ELSE 0)
               q == q0 + RunLen(s, q0, {" "})
           IN  [found |-> TRUE,
                int |-> SubSeq(s, p, p + n1 - 1),
                frac |-> IF dot THEN SubSeq(s, p + n1 + 1, p + n1 + n2) ELSE <<>>,
                suffix |-> IF q <= Len(s) /\ s[q] \in SuffixChars THEN s[q] ELSE ""]

\* suffix.toUpperCase() and the power of ten it multiplies by
Exponent(suffix) ==
  CASE suffix \in {"K", "k"} -> 3
    [] suffix \in {"M", "m"} -> 6
    [] suffix \in {"B", "b"} -> 9
    [] OTHER -> 0

\* Math.floor(parseFloat(int.frac) * 10^e): parseFloat of a text without
\* any digit is NaN, and NaN stays NaN; the arithmetic is exact decimal
\* arithmetic, the rounding of binary floating point is left out
FloorScaled(int, frac, e) ==
  IF int = <<>> /\ frac = <<>>
  THEN NaN
  ELSE Number(Normalize(int \o [k \in 1..e |-> IF k <= Len(frac) THEN frac[k] ELSE 0]))

\* text.match(/\d+/) and parseInt of it
FirstDigitRun(text) ==
  LET starts == {p \in 1..Len(text) : text[p] \in DigitChars}
  IN  IF starts = {} THEN Zero
      ELSE LET p == CHOOSE x \in starts : \A y \in starts : x <= y
           IN  Number(Normalize(DigitsOf(SubSeq(text, p, p + RunLen(text, p, DigitChars) - 1))))

\* parseEngagement(text)
ParseEngagement(text) ==
  IF text = <<>>
  THEN Zero
  ELSE LET match == MatchNumber(CleanText(text))
       IN  IF ~match.found
           THEN FirstDigitRun(text)
           ELSE FloorScaled(DigitsOf(match.int), DigitsOf(match.frac),
                            Exponent(match.suffix))

\* a call parseEngagement(text)
InitParseCall ==
  /\ callFn = "parseEngagement"
  /\ callArg \in SeqsUpTo(TextAlphabet, MaxTextLen)
  /\ callPc = "called"
  /\ callRet = Zero

ParseEngagementCall ==
  /\ callFn = "parseEngagement"
  /\ callPc = "called"
  /\ callRet' = ParseEngagement(callArg)
  /\ callPc' = "returned"
  /\ UNCHANGED <<callFn, callArg>>
  /\ UNCHANGED <<sheetVars, toolVars, collectVars, selVars>>

NextParse == ParseEngagementCall

InitParse ==
  InitSheetsService /\ InitTools /\ InitCollectIdle /\ InitSelIdle /\ InitParseCall

SpecParse == InitParse /\ [][NextParse]_vars

\* ------------------------------------------------------------------ extractTweets
\* A document is the sequence of its elements in document order.  An
\* element is described by what extractTweets asks of it:
\*   matches     the container patterns it matches
\*   hits        per text pattern, the length of the trimmed text of the
\*               first descendant matching it (0: no descendant, or empty)
\*   rawLen      length of its textContent
\*   trimLen     length of its trimmed textContent
\*   interactive whether it contains an input or a button element
\*   handle      whether its text contains '@'
\*   reltime     whether its text contains a relative-time token
\*   throws      whether reading its fields raises an error
\* A text is described by its length, where it came from, and whether it
\* was cut to its first TruncateTo characters plus "...".

\* possibleSelectors, in priority order
ContainerSelectors ==
  <<"tweet", "articleTweet", "cellArticle", "roleArticle", "divTweet", "tweetText">>

\* textSelectors, in priority order
TextSelectors == <<"tweetText", "langSpan", "divLang", "spanLang", "dirAuto">>

\* workingSelector of the fallback scan
FallbackSelector == "fallback"

\* document.querySelectorAll(selector): positions of the matches
DocQuerySelectorAll(doc, selector) ==
  SetToSortedSeq({i \in 1..Len(doc) : selector \in doc[i].matches})

\* a container pattern counts as working whatever it matched
HasElementsAlways(found) == TRUE

\* elements.length > 0
HasElements(found) == Len(found) > 0

\* the position in possibleSelectors of the first pattern with matches, 0
\* if there is none
WorkingSelector(doc) ==
  LET working == {k \in 1..Len(ContainerSelectors) :
                    HasElements(DocQuerySelectorAll(doc, ContainerSelectors[k]))}
  IN  IF working = {} THEN 0
      ELSE CHOOSE k \in working : \A j \in working : k <= j

\* the test of the fallback scan (part of allElements.forEach)
IsCandidate(el) ==
  /\ el.rawLen > CandidateMinLen
  /\ el.rawLen < CandidateMaxLen
  /\ el.interactive = "none"
  /\ (el.handle \/ el.reltime)

\* tweetCandidates, all of them
UncappedCandidates(cands) == cands

\* tweetCandidates.slice(0, 10)
CappedCandidates(cands) ==
  SubSeq(cands, 1, IF Len(cands) < CandidateCap THEN Len(cands) ELSE CandidateCap)

\* tweetCandidates of the fallback scan
TweetCandidates(doc) ==
  SetToSortedSeq({i \in 1..Len(doc) : IsCandidate(doc[i])})

\* the text of an element whichever length it has
FullTextUncut(el) == [len |-> el.trimLen, src |-> "full", cut |-> FALSE]

\* the fallback of extractTweetText: the element's whole trimmed text, the
\* first 280 characters and "..." of it if it is longer than 500
FullText(el) ==
  IF el.trimLen > TextCeiling
  THEN [len |-> TruncateTo + 3, src |-> "full", cut |-> TRUE]
  ELSE [len |-> el.trimLen, src |-> "full", cut |-> FALSE]

\* extractTweetText(el)
ExtractTweetText(el) ==
  LET hit == {k \in 1..Len(TextSelectors) : el.hits[TextSelectors[k]] > 0}
  IN  IF hit = {} THEN FullText(el)
      ELSE LET k == CHOOSE x \in hit : \A y \in hit : x <= y
           IN  [len |-> el.hits[TextSelectors[k]], src |-> TextSelectors[k], cut |-> FALSE]

\* no text is too short
TooShortNever(text) == FALSE

\* !text || text.length < 5
TooShort(text) == text.len = 0 \/ text.len < MinTextLen

\* an error raised while an element is processed leaves the loop
EscapesUncaught(el) == el.throws

\* try { ... } catch (error) { console.error(...) }: nothing leaves the loop
Escapes(el) == FALSE

\* new Date().toISOString() at clock reading now
NowIso(now) == "T" \o ToString(now)

\* extractTimestamp(el) of an element whose time node, if any, has this
\* datetime attribute ("" when absent or empty) and this text, and whose
\* text has relToken as its first relative-time token ("" when none)
ExtractTimestamp(el, now) ==
  IF el.time.present
  THEN IF el.time.datetime # "" THEN el.time.datetime
       ELSE IF el.time.text # "" THEN el.time.text
       ELSE ""
  ELSE IF el.relToken # "" THEN el.relToken
  ELSE NowIso(now)

\* authorSelectors of extractAuthor
AuthorSelectors == <<"userNameLink", "userNamesLink", "rootedAnchor", "rootedRoleLink">>

\* an href is the sequence of its pieces, every "/" a piece of its own;
\* href.startsWith('/')
StartsWithSlash(href) == href # <<>> /\ Head(href) = "/"

\* href.includes('/status/')
IncludesStatus(href) ==
  \E p \in 1..Len(href) :
    /\ p + 2 <= Len(href)
    /\ href[p] = "/" /\ href[p + 1] = "status" /\ href[p + 2] = "/"

\* href.slice(1) of an href that starts with "/"
SliceOne(href) == Tail(href)

\* the test an href must pass to name the author
IsProfileHref(href) ==
  href # <<>> /\ StartsWithSlash(href) /\ ~IncludesStatus(href)

\* extractAuthor(el) for element number index: el.links[k] is what
\* el.querySelector finds under the k-th author pattern, el.atName the
\* name after the first "@" of the text that has one ("" when none)
ExtractAuthor(el, index) ==
  LET usable == {k \in 1..Len(AuthorSelectors) :
                   el.links[k].found /\ IsProfileHref(el.links[k].href)}
  IN  IF usable # {}
      THEN SliceOne(el.links[CHOOSE k \in usable : \A j \in usable : k <= j].href)
      ELSE IF el.atName # "" THEN <<el.atName>>
      ELSE <<"extracted_user_" \o ToString(index)>>

\* testIds of extractEngagement
TestIds(type) ==
  CASE type = "like" -> <<"like", "favorite">>
    [] type = "retweet" -> <<"retweet", "unretweet">>
    [] type = "reply" -> <<"reply">>

\* el.textContent: the text before the buttons, then the buttons' texts
WholeText(el) ==
  el.lead \o el.buttons["reply"] \o el.buttons["retweet"] \o el.buttons["unretweet"]
    \o el.buttons["like"] \o el.buttons["favorite"]

\* num > 0 of a JavaScript number
\* a count that is a number, zero included
IsNumber(num) == ~num.nan

IsPositive(num) == ~num.nan /\ num.digits # <<0>>

\* extractEngagement(el, type): el.buttons[testId] is the text of the span
\* under the button of that test id (empty when there is none)
ExtractEngagement(el, type) ==
  LET ids == TestIds(type)
      good == {k \in 1..Len(ids) :
                 /\ el.buttons[ids[k]] # <<>>
                 /\ IsPositive(ParseEngagement(el.buttons[ids[k]]))}
  IN  IF good # {}
      THEN ParseEngagement(el.buttons[ids[CHOOSE k \in good : \A j \in good : k <= j]])
      ELSE FirstDigitRun(WholeText(el))

\* the body of tweetElements.forEach for the element at doc position at,
\* which is number index of the container set: the posts it adds
ProcessElement(doc, at, index, now) ==
  IF doc[at].throws THEN <<>>
  ELSE LET text == ExtractTweetText(doc[at])
       IN  IF TooShort(text) THEN <<>>
           ELSE <<[id |-> TweetId(now, index), text |-> text, at |-> at,
                   timestamp |-> ExtractTimestamp(doc[at], now),
                   author |-> ExtractAuthor(doc[at], index),
                   likes |-> ExtractEngagement(doc[at], "like"),
                   retweets |-> ExtractEngagement(doc[at], "retweet"),
                   replies |-> ExtractEngagement(doc[at], "reply")]>>

RECURSIVE ProcessAll(_, _, _, _)
ProcessAll(doc, elements, k, now) ==
  IF k > Len(elements) THEN <<>>
  ELSE ProcessElement(doc, elements[k], k - 1, now) \o ProcessAll(doc, elements, k + 1, now)

\* extractTweets() on a document: the posts returned, with the patterns
\* queried, whether the fallback scan ran, and the container set
ExtractTweetsOf(doc, now) ==
  LET w == WorkingSelector(doc)
      cands == TweetCandidates(doc)
      elements == IF w # 0 THEN DocQuerySelectorAll(doc, ContainerSelectors[w])
                  ELSE CappedCandidates(cands)
      error == \E k \in 1..Len(elements) : Escapes(doc[elements[k]])
  IN  [tweets |-> IF error THEN <<>> ELSE ProcessAll(doc, elements, 1, now),
       error |-> error,
       queried |-> IF w # 0 THEN SubSeq(ContainerSelectors, 1, w) ELSE ContainerSelectors,
       scanned |-> w = 0,
       workingSelector |-> IF w # 0 THEN ContainerSelectors[w]
                           ELSE IF Len(cands) > 0 THEN FallbackSelector ELSE "",
       elements |-> elements]

\* ---- the documents extractTweets is called on
NoTimeNode == [present |-> FALSE, datetime |-> "", text |-> ""]

TimeNode(datetime, text) == [present |-> TRUE, datetime |-> datetime, text |-> text]

NoLink == [found |-> FALSE, href |-> <<>>]

Link(href) == [found |-> TRUE, href |-> href]

NoLinks == [k \in 1..Len(AuthorSelectors) |-> NoLink]

ButtonIds == {"like", "favorite", "retweet", "unretweet", "reply"}

NoButtons == [b \in ButtonIds |-> <<>>]

\* an element without time node, links or buttons
Elem(matches, hits, rawLen, trimLen, interactive, token, throws) ==
  [matches |-> matches, hits |-> hits, rawLen |-> rawLen, trimLen |-> trimLen,
   interactive |-> interactive,
   handle |-> token \in {"at", "handle"}, named |-> token = "handle",
   reltime |-> token = "reltime", throws |-> throws,
   time |-> NoTimeNode, relToken |-> IF token = "reltime" THEN "2h" ELSE "",
   links |-> NoLinks, atName |-> IF token = "handle" THEN "alice" ELSE "",
   lead |-> <<>>, buttons |-> NoButtons]

NoHits == [s \in {TextSelectors[k] : k \in 1..Len(TextSelectors)} |-> 0]

\* what the text patterns find in an element and the length of its own
\* trimmed text: a long text under the first pattern, a short text under
\* the last pattern, two patterns with a text, none with a long, a medium,
\* a short and an empty text of its own
TextKinds ==
  {<<[NoHits EXCEPT !["tweetText"] = 600], 700>>,
   <<[NoHits EXCEPT !["dirAuto"] = 3], 30>>,
   <<[NoHits EXCEPT !["langSpan"] = 5, !["dirAuto"] = 40], 50>>,
   <<NoHits, 600>>,
   <<NoHits, 30>>,
   <<NoHits, 4>>}

\* container patterns matched, and the token in the text
ContainerKinds ==
  {<<{"tweet", "articleTweet"}, "handle">>,
   <<{"roleArticle"}, "handle">>,
   <<{}, "handle">>}

\* elements of the documents of SpecExtract; of the elements whose fields
\* cannot be read, and of those without any token in their text, one kind
\* is enough
ElementPool ==
  {Elem(c[1], t[1], t[2] + 2, t[2], "none", c[2], FALSE) :
     c \in ContainerKinds, t \in TextKinds}
  \cup {Elem(c[1], NoHits, 32, 30, "none", c[2], TRUE) : c \in ContainerKinds}
  \cup {Elem({}, NoHits, 32, 30, "none", "none", FALSE)}

\* elements at the limits of the fallback scan's test
ScanPool ==
  {Elem({}, NoHits, raw, raw - pad, interactive, token, FALSE) :
     raw \in {CandidateMinLen, CandidateMinLen + 1, CandidateMaxLen - 1, CandidateMaxLen},
     pad \in {0, 2},
     interactive \in {"none", "input", "button"},
     token \in {"none", "at", "handle", "reltime"}}

\* a plain element that passes the scan's test, and one that does not
PlainCandidate == Elem({}, NoHits, 42, 40, "none", "handle", FALSE)

PlainOther == Elem({}, NoHits, 42, 40, "none", "none", FALSE)

\* the state outside the call
InitOutsideCall ==
  /\ InitSheetsService
  /\ wsCount = 0
  /\ InitTools
  /\ InitCollectIdle
  /\ InitSelIdle

NoExtract ==
  [tweets |-> <<>>, queried |-> <<>>, scanned |-> FALSE, workingSelector |-> "",
   elements |-> <<>>, error |-> FALSE]

InitExtractCall(docs) ==
  /\ callFn = "extractTweets"
  /\ callArg \in [doc : docs, now : {0, MaxClock}]
  /\ callPc = "called"
  /\ callRet = NoExtract

\* page.evaluate(() => { ... }) of extractTweets
ExtractTweetsCall ==
  /\ callFn = "extractTweets"
  /\ callPc = "called"
  /\ callRet' = ExtractTweetsOf(callArg.doc, callArg.now)
  /\ callPc' = "returned"
  /\ UNCHANGED <<callFn, callArg>>
  /\ UNCHANGED <<sheetVars, toolVars, collectVars, selVars>>

NextExtract == ExtractTweetsCall

InitExtract == InitOutsideCall /\ InitExtractCall(SeqsUpTo(ElementPool, MaxDocElems))

SpecExtract == InitExtract /\ [][NextExtract]_vars

\* documents of the fallback scan: one element at the limits of the test,
\* or up to MaxScanElems plain elements
InitScan ==
  /\ InitOutsideCall
  /\ InitExtractCall(SeqsUpTo(ScanPool, 1)
                     \cup SeqsUpTo({PlainCandidate, PlainOther}, MaxScanElems))

SpecScan == InitScan /\ [][NextExtract]_vars

\* ---- the documents whose elements carry a time node, links and buttons
\* the time node and the first relative-time token of the text: a text with
\* and without a token and no time node, a time node with a datetime, and
\* time nodes without one whose text is a date, a token or empty
TimeKinds ==
  {<<NoTimeNode, "2h">>,
   <<NoTimeNode, "">>,
   <<TimeNode("2026-01-01T00:00:00.000Z", "2h"), "2h">>,
   <<TimeNode("", "Mar 5"), "">>,
   <<TimeNode("", "Mar 5"), "2h">>,
   <<TimeNode("", "3h"), "3h">>,
   <<TimeNode("", ""), "">>}

ProfileHref == <<"/", "alice">>

OtherProfileHref == <<"/", "bob">>

StatusHref == <<"/", "alice", "/", "status", "/", "1">>

AbsoluteHref == <<"https:", "/", "/", "x.com", "/", "alice">>

RootHref == <<"/">>

ProtocolRelativeHref == <<"/", "/", "cdn.example", "/", "a.png">>

\* what the four author patterns find, and the name after the first "@":
\* no link at all, the profile link under the first pattern, a status link
\* first and a profile link under the last pattern, only status links, a
\* link of the named blocks with an absolute href or none, and a first
\* rooted anchor that is the site root or protocol-relative
AuthorKinds ==
  {<<NoLinks, "carol">>,
   <<NoLinks, "">>,
   <<<<Link(ProfileHref), NoLink, Link(ProfileHref), Link(ProfileHref)>>, "carol">>,
   <<<<Link(StatusHref), NoLink, Link(StatusHref), Link(OtherProfileHref)>>, "">>,
   <<<<NoLink, Link(StatusHref), Link(StatusHref), Link(StatusHref)>>, "carol">>,
   <<<<Link(StatusHref), NoLink, Link(StatusHref), Link(StatusHref)>>, "">>,
   <<<<Link(AbsoluteHref), NoLink, NoLink, NoLink>>, "carol">>,
   <<<<Link(<<>>), NoLink, NoLink, NoLink>>, "">>,
   <<<<NoLink, NoLink, Link(RootHref), NoLink>>, "carol">>,
   <<<<NoLink, NoLink, Link(ProtocolRelativeHref), NoLink>>, "carol">>}

\* the text before the buttons and the texts of the buttons' spans: a like
\* button without count or showing 0, with and without a favorite and a
\* retweet button showing a count, a like button whose text is no number,
\* and a reply button whose text has no digit
EngagementKinds ==
  {<<lead, [NoButtons EXCEPT !["like"] = like, !["favorite"] = favorite,
                             !["retweet"] = retweet]>> :
     lead \in {<<>>, <<"7", " ">>},
     like \in {<<>>, <<"0">>},
     favorite \in {<<>>, <<"1", "K">>},
     retweet \in {<<>>, <<"3">>}}
  \cup {<<<<"7", " ">>, [NoButtons EXCEPT !["like"] = <<",">>]>>,
         <<<<>>, [NoButtons EXCEPT !["reply"] = <<"e">>]>>}

\* a post's container element with a text of 40 characters
PostElem == Elem({"tweet", "articleTweet"}, [NoHits EXCEPT !["tweetText"] = 40],
                 52, 50, "none", "none", FALSE)

FieldPool ==
  {[PostElem EXCEPT !.time = t[1], !.relToken = t[2], !.reltime = t[2] # ""] :
     t \in TimeKinds}
  \cup {[PostElem EXCEPT !.links = a[1], !.atName = a[2],
                         !.handle = a[2] # "", !.named = a[2] # ""] :
          a \in AuthorKinds}
  \cup {[PostElem EXCEPT !.lead = e[1], !.buttons = e[2]] : e \in EngagementKinds}

InitFields == InitOutsideCall /\ InitExtractCall(SeqsUpTo(FieldPool, MaxFieldElems))

SpecFields == InitFields /\ [][NextExtract]_vars

\* ------------------------------------------------------------------ claims
LogIdx == 1..Len(log)

AllOfKind(kind) == \A i \in LogIdx : log[i].kind = kind

\* rows start .. start+n-1 of the worksheet still hold what call i wrote
StillHolds(i) ==
  \A r \in 1..log[i].n :
    /\ log[i].start + r - 1 <= Len(sheet)
    /\ sheet[log[i].start + r - 1] = log[i].values[r]

\* C1: sequential export_tweets_to_sheets calls of one caller to an initially
\* empty worksheet occupy consecutive row ranges: the first writes the
\* header at row 1 and its records below it, every later call starts at the
\* row after the last row of the previous call, and no row an earlier call
\* wrote is rewritten, whatever the posts' field values.
C1_ConsecutiveRanges ==
  AllOfKind("tweets") =>
    /\ \A i \in LogIdx :
         IF i = 1
         THEN /\ log[i].start = 1
              /\ log[i].values[1] = TweetHeaders
              /\ log[i].n = log[i].k + 1
         ELSE log[i].start = log[i - 1].start + log[i - 1].n
    /\ \A i \in LogIdx : StillHolds(i)

\* the same ranges when every exported post has a timestamp
C1_FilledColumnA ==
  (AllOfKind("tweets") /\ \A i \in LogIdx : \A r \in 1..log[i].n : log[i].values[r].a # "")
    => C1_ConsecutiveRanges

\* C2: after n sequential export_profile_to_sheets calls to an initially
\* empty worksheet the worksheet is one header row followed by the n profile
\* rows in call order, whatever the profiles' field values.
C2_HeaderThenProfiles ==
  (AllOfKind("profile") /\ AllIdle /\ log # <<>>) =>
    /\ Len(sheet) = Len(log) + 1
    /\ sheet[1] = ProfileHeaders
    /\ \A i \in LogIdx : sheet[i + 1] = log[i].values[log[i].n]
    /\ Cardinality({ r \in 1..Len(sheet) : IsHeader(sheet[r]) }) = 1

\* C3: an export of k records that reads a column-A count of 0 writes k+1
\* rows from row 1, header first, in its one write request; one that reads a
\* count N > 0 writes k rows, no header, and leaves N + k occupied rows.
C3_RowsWritten ==
  /\ \A i \in LogIdx : \A j \in LogIdx : log[i].call = log[j].call => i = j
  /\ \A i \in LogIdx :
       IF log[i].count = 0
       THEN /\ log[i].n = log[i].k + 1
            /\ log[i].start = 1
            /\ log[i].values[1] = Headers(log[i].kind)
            /\ \A r \in 2..log[i].n : ~IsHeader(log[i].values[r])
       ELSE /\ log[i].n = log[i].k
            /\ \A r \in 1..log[i].n : ~IsHeader(log[i].values[r])
            /\ OccupiedRows(log[i].after) = log[i].count + log[i].k

\* the two calls were in flight together: j read its count before i wrote
Raced(i, j) == i < j /\ log[j].readAt < i /\ log[i].caller # log[j].caller

FirstDataRow(i) == log[i].start + (log[i].n - log[i].k)

\* C4: when two concurrent export calls read the same existingRowCount
\* before either writes, they compute the same start row and the later
\* write replaces the rows of the earlier one instead of appending below.
C4_RaceOverwrites ==
  \A i \in LogIdx : \A j \in LogIdx :
    (Raced(i, j) /\ log[i].count = log[j].count) =>
      /\ log[j].start = log[i].start
      /\ log[j].after[FirstDataRow(i)] = log[j].values[1 + (log[j].n - log[j].k)]
      /\ log[j].after[FirstDataRow(i)] # log[i].values[1 + (log[i].n - log[i].k)]

C4_RaceReached ==
  \E i \in LogIdx : \E j \in LogIdx :
    /\ Raced(i, j)
    /\ log[i].count = log[j].count
    /\ log[j].start = log[i].start
    /\ log[j].before[FirstDataRow(i)] = log[i].values[1 + (log[i].n - log[i].k)]
    /\ sheet[FirstDataRow(i)] # log[i].values[1 + (log[i].n - log[i].k)]

C6_ExportsLastGathered ==
  /\ \A i \in LogIdx :
       (log[i].kind = "tweets" /\ log[i].src = "last") => log[i].batch = log[i].expect
  /\ (result.tool = "tweets" /\ result.src = "last" /\ result.error = "nodata")
       => result.expect = <<>>

\* C7: export_profile_to_sheets called without a profile argument writes the
\* profile get_user_profile last fetched, and is refused with the "run
\* get_user_profile first" error only when no get_user_profile succeeded.
C7_ExportsLastFetched ==
  /\ \A i \in LogIdx :
       (log[i].kind = "profile" /\ log[i].src = "last") => log[i].batch = log[i].expect
  /\ (result.tool = "profile" /\ result.src = "last" /\ result.error = "nodata")
       => result.expect = NoProfile

\* what the loop has done so far stays within the budget of C8
CollectWithinBudget ==
  /\ scrollCount = Len(iterLens)
  /\ (scrollCount = 0 \/ 3 * (scrollCount - 1) < maxTweets)
  /\ \A k \in 1..Len(iterLens) : iterLens[k] < maxTweets
  /\ (maxTweets >= 0 => Len(tweets) <= maxTweets)
  /\ (maxTweets <= 0 => (scrollCount = 0 /\ tweets = <<>>))
  /\ (cpc = "done" => (3 * scrollCount >= maxTweets \/ Len(tweets) >= maxTweets))

\* C8: collectTweetsNaturally(maxTweets) always terminates; it performs at
\* most ceil(maxTweets / 3) iterations, starts no iteration once maxTweets
\* posts are collected, returns once the iteration budget is used up however
\* few posts were found, never holds more than maxTweets posts, and performs
\* no iteration and returns an empty list when maxTweets <= 0.
C8_TerminatesWithinBudget ==
  /\ [](cpc # "idle" => CollectWithinBudget)
  /\ <>(cpc \in {"done", "failed"})

\* a run with a budget of two iterations that returned after the first,
\* which had collected maxTweets posts
C8_StoppedEarly ==
  /\ cpc = "done"
  /\ maxTweets = 4
  /\ scrollCount = 1
  /\ Len(tweets) = 4

\* the first position in allSeen of a post with this id
FirstSeenAt(id) ==
  CHOOSE p \in 1..Len(allSeen) :
    /\ allSeen[p].id = id
    /\ \A q \in 1..(p - 1) : allSeen[q].id # id

\* C9: whatever the extraction passes return, the list holds each synthetic
\* id at most once, every post in it is the earliest extracted instance of
\* its id, and the posts are in first-seen order.
C9_FirstSeenOnce ==
  cpc # "idle" =>
    /\ \A a, b \in 1..Len(tweets) : a < b => tweets[a].id # tweets[b].id
    /\ \A a \in 1..Len(tweets) :
         \E p \in 1..Len(allSeen) :
           /\ allSeen[p] = tweets[a]
           /\ \A q \in 1..(p - 1) : allSeen[q].id # tweets[a].id
    /\ \A a, b \in 1..Len(tweets) :
         a < b => FirstSeenAt(tweets[a].id) < FirstSeenAt(tweets[b].id)

\* a finished run in which a later pass returned an id again, as another
\* instance, and the list holds the earlier one
C9_IdRecurred ==
  /\ cpc = "done"
  /\ \E p, q \in 1..Len(allSeen) :
       /\ p < q
       /\ allSeen[p].id = allSeen[q].id
       /\ allSeen[p] # allSeen[q]
       /\ \E a \in 1..Len(tweets) : tweets[a] = allSeen[p]
       /\ \A a \in 1..Len(tweets) : tweets[a] # allSeen[q]

\* positions of the selectors list whose pattern matches in the container
MatchingPositions == {k \in 1..Len(selectors) : selDoc[selectors[k]] # {}}

\* C10: a finished search returns none / the empty list exactly when no
\* pattern of the list matches; otherwise findElementBySelectors returns the
\* first match in document order of the earliest matching pattern,
\* findAllElementsBySelectors returns all matches of that pattern in
\* document order and nothing else, and no pattern after it was evaluated.
C10_EarliestPatternOnly ==
  selPc = "done" =>
    /\ (selResult = <<>>) <=> (MatchingPositions = {})
    /\ MatchingPositions = {} => selQueried = selectors
    /\ MatchingPositions # {} =>
         LET k == CHOOSE m \in MatchingPositions : \A n \in MatchingPositions : m <= n
             hits == selDoc[selectors[k]]
         IN  /\ selQueried = SubSeq(selectors, 1, k)
             /\ {selResult[r] : r \in 1..Len(selResult)} \subseteq hits
             /\ \A r \in 1..(Len(selResult) - 1) : selResult[r] < selResult[r + 1]
             /\ selFn = "first" =>
                  /\ Len(selResult) = 1
                  /\ \A e \in hits : selResult[1] <= e
             /\ selFn = "all" => Len(selResult) = Cardinality(hits)

\* findAllElementsBySelectors returned both matches of the second pattern
\* of three, the first matching nothing and the third matching another
\* set of elements
C10_SecondPatternMatched ==
  /\ selPc = "done"
  /\ selFn = "all"
  /\ Len(selectors) = 3
  /\ selDoc[selectors[1]] = {}
  /\ selDoc[selectors[2]] = {1, 2}
  /\ selDoc[selectors[3]] = {2}
  /\ selResult = <<1, 2>>
  /\ Len(selQueried) = 2

\* the reference decode of the first number of a text, read off the text
\* itself: the first digit starts the number, digits and grouping commas
\* continue it, a period followed by digits is its fraction, and a K, M or
\* B (either case) multiplies it only if it is the very next character
ReferenceDecode(text) ==
  LET starts == {p \in 1..Len(text) : text[p] \in DigitChars}
  IN  IF starts = {} THEN Zero
      ELSE LET p == CHOOSE x \in starts : \A y \in starts : x <= y
               n1 == RunLen(text, p, DigitChars \cup {","})
               dot == p + n1 <= Len(text) /\ text[p + n1] = "."
               n2 == IF dot THEN RunLen(text, p + n1 + 1, DigitChars) ELSE 0
               q == p + n1 + (IF dot THEN 1 + n2 ELSE 0)
               e == IF q <= Len(text) /\ text[q] \in SuffixChars
                    THEN Exponent(text[q]) ELSE 0
           IN  FloorScaled(DigitsOf(SubSeq(text, p, p + n1 - 1)),
                           IF dot THEN DigitsOf(SubSeq(text, p + n1 + 1, p + n1 + n2))
                           ELSE <<>>,
                           e)

\* C11: parseEngagement(text) is the reference decode of the first number
\* in the text: comma-grouped digits are one integer, and a K, M or B
\* multiplier is applied only when the letter directly follows the number
\* in the original text.
C11_DecodesFirstNumber ==
  (callFn = "parseEngagement" /\ callPc = "returned") =>
    callRet = ReferenceDecode(callArg)

\* a number that is a non-negative integer: not NaN, decimal digits, no
\* leading zero
IsNatural(v) ==
  /\ ~v.nan
  /\ Len(v.digits) >= 1
  /\ \A k \in 1..Len(v.digits) : v.digits[k] \in 0..9
  /\ (Len(v.digits) > 1 => v.digits[1] # 0)

\* C12: for every text of digits, commas, periods, letters and spaces
\* parseEngagement returns a non-negative integer, and 0 when the text is
\* empty or holds no digit.
C12_NaturalAndZeroWithoutDigit ==
  (callFn = "parseEngagement" /\ callPc = "returned") =>
    /\ IsNatural(callRet)
    /\ (\A k \in 1..Len(callArg) : callArg[k] \notin DigitChars) => callRet = Zero

\* extractTweets has returned
Extracted == callFn = "extractTweets" /\ callPc = "returned"

\* the length of the text extractTweetText resolved for an element, before
\* any cut
RawTextLen(el, text) == IF text.src = "full" THEN el.trimLen ELSE el.hits[text.src]

\* the elements of the container set whose fields can be read and whose
\* resolved text has at least 5 characters
Keepable(doc, elements) ==
  {elements[j] : j \in {i \in 1..Len(elements) :
                          /\ ~doc[elements[i]].throws
                          /\ ExtractTweetText(doc[elements[i]]).len >= 5}}

\* C13: every post extractTweets returns has a text of at least 5
\* characters; an element whose resolved text is empty or shorter never
\* yields a post, and the other elements of the container set are returned,
\* in document order.
C13_ShortTextsDropped ==
  Extracted =>
    LET doc == callArg.doc
        posts == callRet.tweets
    IN  /\ \A k \in 1..Len(posts) :
             /\ posts[k].text.len >= 5
             /\ posts[k].text = ExtractTweetText(doc[posts[k].at])
        /\ \A k \in 1..(Len(posts) - 1) : posts[k].at < posts[k + 1].at
        /\ {posts[k].at : k \in 1..Len(posts)} = Keepable(doc, callRet.elements)

\* three container elements, the second with a text below 5 characters:
\* the first and the third are returned
C13_MiddleDropped ==
  /\ Extracted
  /\ callRet.elements = <<1, 2, 3>>
  /\ ExtractTweetText(callArg.doc[2]).len \in 1..4
  /\ Len(callRet.tweets) = 2
  /\ callRet.tweets[1].at = 1
  /\ callRet.tweets[2].at = 3

\* C14: every post whose raw text is longer than 500 characters is stored
\* as its first 280 characters plus "...", at most 283 characters,
\* whichever text pattern or fallback resolved the text.
C14_LongTextsCut ==
  Extracted =>
    \A k \in 1..Len(callRet.tweets) :
      LET post == callRet.tweets[k]
      IN  RawTextLen(callArg.doc[post.at], post.text) > 500 =>
            (post.text.cut /\ post.text.len <= 283)

\* positions of possibleSelectors whose pattern matches in the document
MatchingContainers(doc) ==
  {k \in 1..Len(ContainerSelectors) :
     \E i \in 1..Len(doc) : ContainerSelectors[k] \in doc[i].matches}

\* C15: the container patterns are tried in priority order; the matches of
\* the first pattern with a match are the whole container set, no pattern
\* after it is queried, and the fallback scan runs only when no container
\* pattern matches.
C15_FirstContainerPatternOnly ==
  Extracted =>
    LET doc == callArg.doc
        matching == MatchingContainers(doc)
    IN  /\ callRet.scanned <=> (matching = {})
        /\ matching # {} =>
             LET k == CHOOSE m \in matching : \A n \in matching : m <= n
             IN  /\ callRet.queried = SubSeq(ContainerSelectors, 1, k)
                 /\ callRet.workingSelector = ContainerSelectors[k]
                 /\ \A i \in 1..Len(doc) :
                      (\E j \in 1..Len(callRet.elements) : callRet.elements[j] = i)
                        <=> ContainerSelectors[k] \in doc[i].matches
                 /\ \A j \in 1..(Len(callRet.elements) - 1) :
                      callRet.elements[j] < callRet.elements[j + 1]

\* a document with matches of the first and of the fourth pattern and a
\* scan candidate: the container set is the matches of the first pattern
C15_TwoPatternsMatch ==
  /\ Extracted
  /\ Len(callArg.doc) = 3
  /\ "roleArticle" \in callArg.doc[1].matches
  /\ "tweet" \in callArg.doc[2].matches
  /\ callArg.doc[3].matches = {}
  /\ IsCandidate(callArg.doc[3])
  /\ callRet.elements = <<2>>
  /\ ~callRet.scanned

\* C16: when no container pattern matches and at least one element is a
\* candidate of the fallback scan, extractTweets returns at least one post.
C16_CandidatesYieldPosts ==
  (/\ Extracted
   /\ MatchingContainers(callArg.doc) = {}
   /\ \E i \in 1..Len(callArg.doc) : IsCandidate(callArg.doc[i]))
    => Len(callRet.tweets) > 0

\* C19: an error raised while one container element is processed never
\* makes extractTweets fail: the element is skipped, every other element
\* is still processed and returned, and a document in which neither a
\* container pattern nor the fallback scan finds an element gives an empty
\* list, not an error.
C19_ElementErrorsContained ==
  Extracted =>
    LET doc == callArg.doc
        posts == callRet.tweets
    IN  /\ ~callRet.error
        /\ \A k \in 1..Len(posts) : ~doc[posts[k].at].throws
        /\ Keepable(doc, callRet.elements) \subseteq {posts[k].at : k \in 1..Len(posts)}
        /\ (/\ MatchingContainers(doc) = {}
            /\ \A i \in 1..Len(doc) : ~IsCandidate(doc[i]))
             => (callRet.elements = <<>> /\ posts = <<>>)

\* the first of two container elements raised an error and the second was
\* returned
C19_OneElementFailed ==
  /\ Extracted
  /\ callRet.elements = <<1, 2>>
  /\ callArg.doc[1].throws
  /\ Len(callRet.tweets) = 1
  /\ callRet.tweets[1].at = 2
  /\ callRet.tweets[1].id = TweetId(callArg.now, 1)

\* the first n positions of the set qualifies
FirstOf(doc, qualifies, n) ==
  {i \in qualifies : Cardinality({j \in qualifies : j < i}) < n}

\* C20 as stated: in the fallback scan an element is a candidate exactly
\* when its trimmed text has at least 20 and fewer than 1000 characters, it
\* holds no input or button element and its text holds an @handle or a
\* relative-time token; the first 10 candidates in document order are the
\* container set.
C20_CandidatesByTrimmedText ==
  (Extracted /\ callRet.scanned) =>
    LET doc == callArg.doc
        qualifies == {i \in 1..Len(doc) :
                        /\ doc[i].trimLen >= 20
                        /\ doc[i].trimLen < 1000
                        /\ doc[i].interactive = "none"
                        /\ (doc[i].named \/ doc[i].reltime)}
    IN  /\ {callRet.elements[j] : j \in 1..Len(callRet.elements)} = FirstOf(doc, qualifies, 10)
        /\ \A j \in 1..(Len(callRet.elements) - 1) :
             callRet.elements[j] < callRet.elements[j + 1]

\* C20 amended: an element is a candidate exactly when its text content,
\* untrimmed, has more than 20 and fewer than 1000 characters, it holds no
\* input or button element and its text holds the character '@' or a
\* relative-time token; the first 10 candidates in document order are the
\* container set.
C20_CandidatesByTextContent ==
  (Extracted /\ callRet.scanned) =>
    LET doc == callArg.doc
        qualifies == {i \in 1..Len(doc) :
                        /\ doc[i].rawLen >= 21
                        /\ doc[i].rawLen <= 999
                        /\ doc[i].interactive = "none"
                        /\ (doc[i].handle \/ doc[i].reltime)}
    IN  /\ {callRet.elements[j] : j \in 1..Len(callRet.elements)} = FirstOf(doc, qualifies, 10)
        /\ \A j \in 1..(Len(callRet.elements) - 1) :
             callRet.elements[j] < callRet.elements[j + 1]

\* a scan of eleven candidates used the first ten
C20_EleventhCandidateLeftOut ==
  /\ Extracted
  /\ callRet.scanned
  /\ Len(callArg.doc) = 11
  /\ \A i \in 1..11 : IsCandidate(callArg.doc[i])
  /\ callRet.elements = <<1, 2, 3, 4, 5, 6, 7, 8, 9, 10>>

\* the tools that need the page
PageDependentTools ==
  {"navigate_to_user", "check_login_status", "collect_tweets_naturally",
   "get_user_profile", "search_tweets", "debug_page_structure", "test_tweet_selectors"}

\* C17: a page-dependent tool call made while no browser session is active
\* (none started yet, or close_browser completed since the last successful
\* start_browser) fails with the 'browser not started' error; made while a
\* session is active it does not fail with that error; and a
\* page-dependent call never launches, replaces or closes a browser.
C17_PageToolsNeedSession ==
  /\ [](result.tool \in PageDependentTools =>
          (result.error = "notready" <=> ~session))
  /\ [][(ntools' # ntools /\ result'.tool \in PageDependentTools) =>
          (nlaunch' = nlaunch /\ browser' = browser /\ open' = open /\ session' = session)]_vars

\* a page-dependent call is accepted in a second session, started after
\* close_browser ended the first
C17_AcceptedAgain ==
  /\ result.tool = "navigate_to_user"
  /\ result.error = "none"
  /\ session
  /\ nlaunch = 2
  /\ ntools = 4
  /\ open = {2}

\* the storage operations, as the kinds of SheetsService calls
StorageKinds == {"tweets", "profile", "create", "list"}

\* C18: a storage operation called while the client was never set up does
\* not fail as not ready: it sets the client up itself and, once that is
\* done, goes on to the requested operation; a storage operation called
\* with the client set up does not set it up again, and the client, once
\* set up, stays.
C18_LazySetupOnce ==
  /\ [](result.tool \in StorageKinds => result.error # "notready")
  /\ [][(pc[1] = "idle" /\ pc'[1] # "idle" /\ loc'[1].kind \in StorageKinds) =>
          IF sheets
          THEN pc'[1] = AfterSetup(loc'[1].kind) /\ sheets' /\ auth' = auth
          ELSE pc'[1] = "setup" /\ sheets' /\ auth']_vars
  /\ [][(pc[1] = "setup" /\ loc[1].kind \in StorageKinds /\ pc'[1] # "setup") =>
          \/ pc'[1] = AfterSetup(loc[1].kind)
          \/ result'.error = "backend"]_vars
  /\ [][sheets => sheets']_vars

\* the very first tool call of the server was an export, and it wrote
C18_FirstCallExported ==
  /\ ntools = 1
  /\ result.tool = "tweets"
  /\ result.ok
  /\ result.call = 1
  /\ Len(log) = 1
  /\ sheets
  /\ auth

\* the element a post of the returned list was built from
ElemOf(post) == callArg.doc[post.at]

\* C21: every extracted post has a non-empty timestamp, resolved in order:
\* the datetime attribute of the element's time node when present,
\* otherwise a relative-time token matched in the element's text, otherwise
\* the current collection time.
C21_TimestampResolved ==
  Extracted =>
    \A k \in 1..Len(callRet.tweets) :
      LET post == callRet.tweets[k]
          el == ElemOf(post)
      IN  /\ post.timestamp # ""
          /\ post.timestamp =
               IF el.time.present /\ el.time.datetime # "" THEN el.time.datetime
               ELSE IF el.relToken # "" THEN el.relToken
               ELSE NowIso(callArg.now)

\* the patterns of an element under which a link was found whose href
\* starts with "/" and holds no "/status/"
ProfileLinks(el) ==
  {k \in 1..Len(AuthorSelectors) :
     /\ el.links[k].found
     /\ StartsWithSlash(el.links[k].href)
     /\ ~IncludesStatus(el.links[k].href)}

\* C22: every extracted post has a non-empty author with no leading "/":
\* the path of the profile link found by the ordered author patterns whose
\* href holds no "/status/", otherwise the handle of the first @handle
\* token of the text, otherwise the placeholder extracted_user_<index>.
C22_AuthorResolved ==
  Extracted =>
    \A k \in 1..Len(callRet.tweets) :
      LET post == callRet.tweets[k]
          el == ElemOf(post)
          index == CHOOSE j \in 1..Len(callRet.elements) : callRet.elements[j] = post.at
      IN  /\ post.author # <<>>
          /\ Head(post.author) # "/"
          /\ post.author =
               IF ProfileLinks(el) # {}
               THEN Tail(el.links[CHOOSE i \in ProfileLinks(el) :
                                    \A j \in ProfileLinks(el) : i <= j].href)
               ELSE IF el.atName # "" THEN <<el.atName>>
               ELSE <<"extracted_user_" \o ToString(index - 1)>>

\* the counts above zero that the buttons of one kind show, in the order
\* of the kind's button patterns
PositiveCounts(el, type) ==
  LET ids == TestIds(type)
      counts == [k \in 1..Len(ids) |->
                   IF el.buttons[ids[k]] = <<>> THEN Zero
                   ELSE ParseEngagement(el.buttons[ids[k]])]
  IN  SelectSeq(counts, LAMBDA n : ~n.nan /\ n.digits # <<0>>)

EngagementOf(post, type) ==
  CASE type = "like" -> post.likes
    [] type = "retweet" -> post.retweets
    [] type = "reply" -> post.replies

EngagementTypes == {"like", "retweet", "reply"}

\* C23: each engagement kind of a post is resolved on its own: the first
\* count above zero parsed from a button of the kind is used, otherwise the
\* first integer token of the element's whole text, 0 when there is none;
\* so all kinds of one post without a button count above zero get the same
\* number.
C23_EngagementPerKind ==
  Extracted =>
    \A k \in 1..Len(callRet.tweets) :
      LET post == callRet.tweets[k]
          el == ElemOf(post)
          lacking == {t \in EngagementTypes : PositiveCounts(el, t) = <<>>}
      IN  /\ \A t \in EngagementTypes \ lacking :
               EngagementOf(post, t) = Head(PositiveCounts(el, t))
          /\ \A t \in lacking : EngagementOf(post, t) = FirstDigitRun(WholeText(el))
          /\ \A t, u \in lacking : EngagementOf(post, t) = EngagementOf(post, u)
          /\ (\A i \in 1..Len(WholeText(el)) : WholeText(el)[i] \notin DigitChars)
               => \A t \in lacking : EngagementOf(post, t) = Zero

\* a post whose like button shows 0 and whose other kinds have no button,
\* in an element whose text starts with 7: all three counts are 7; and a
\* post whose favorite button shows 1K next to a retweet button showing 3,
\* the reply count being the 7 its text starts with
C23_ZeroButtonFallsBack ==
  /\ Extracted
  /\ Len(callRet.tweets) = 2
  /\ ElemOf(callRet.tweets[1]).buttons = [NoButtons EXCEPT !["like"] = <<"0">>]
  /\ ElemOf(callRet.tweets[1]).lead = <<"7", " ">>
  /\ callRet.tweets[1].likes = Number(<<7>>)
  /\ callRet.tweets[1].retweets = Number(<<7>>)
  /\ callRet.tweets[1].replies = Number(<<7>>)
  /\ ElemOf(callRet.tweets[2]).buttons["like"] = <<>>
  /\ callRet.tweets[2].likes = Number(<<1, 0, 0, 0>>)
  /\ callRet.tweets[2].retweets = Number(<<3>>)
  /\ callRet.tweets[2].replies = Number(<<7>>)

\* the last export that wrote is the call whose result is held
ExportReported ==
  /\ result.ok
  /\ result.tool \in {"tweets", "profile"}
  /\ log # <<>>
  /\ log[Len(log)].call = result.call

\* C24: for every successful export the reported figures match what was
\* written: the reported start row is the first row of the write range,
\* the range covers exactly the rows sent and the entity's columns (10 for
\* posts, 8 for profiles), the reported new-row count is the number of
\* records of the batch and the reported total is the number of occupied
\* rows after the write.
C24_ReportedFigures ==
  ExportReported =>
    LET e == log[Len(log)]
    IN  /\ result.startRow = result.range.first
        /\ result.range.first = e.start
        /\ result.range.last - result.range.first + 1 = Len(e.values)
        /\ \A r \in 1..Len(e.values) : sheet[e.start + r - 1] = e.values[r]
        /\ result.range.columns = RowWidth(e.kind)
        /\ result.range.columns = IF e.kind = "tweets" THEN 10 ELSE 8
        /\ e.kind = "tweets" =>
             /\ result.newDataCount = Len(e.batch)
             /\ result.totalRows = OccupiedRows(sheet)

\* C25: every export first makes sure the worksheet exists: an absent
\* worksheet is created before the row count is read and the export is then
\* a first write (header at row 1); a present worksheet is left alone and
\* none is created; so after any sequence of sequential exports there is
\* exactly one worksheet of that name, never two.
C25_WorksheetEnsured ==
  /\ [](/\ wsCount <= 1
        /\ pc[1] \in {"read", "write"} => wsCount = 1
        /\ log # <<>> => wsCount = 1
        /\ \A i \in LogIdx :
             log[i].created =>
               /\ log[i].count = 0
               /\ log[i].start = 1
               /\ log[i].values[1] = Headers(log[i].kind)
               /\ log[i].before = <<>>)
  /\ [][wsCount' # wsCount =>
          /\ wsCount = 0
          /\ wsCount' = 1
          /\ pc[1] = "ensureAdd"
          /\ pc'[1] = "read"]_vars

\* the first export created the worksheet and wrote the header, the second
\* found it and created none
C25_CreatedOnce ==
  /\ Len(log) = 2
  /\ log[1].created
  /\ ~log[2].created
  /\ log[2].start > 1
  /\ wsCount = 1

\* C27: if any backend step of an export fails (the worksheet lookup or
\* creation, the row-count read or the write), the call reports a single
\* error and the spreadsheet is left exactly as the call found it: no
\* worksheet added, no cell changed.
C27_FailedExportChangesNothing ==
  (/\ pc[1] = "idle"
   /\ result.call = ncalls
   /\ result.tool \in {"tweets", "profile"}
   /\ result.error = "backend")
    => /\ ~result.ok
       /\ wsCount = result.atStart.wsCount
       /\ sheet = result.atStart.sheet

\* the posts extractTweets returned in iteration p of the run
PassPosts(p) == SelectSeq(allSeen, LAMBDA t : t.pass = p)

\* the elements they were built from, and the clock reading in their ids
PassIndexes(p) == {PassPosts(p)[k].id[3] : k \in 1..Len(PassPosts(p))}

PassClock(p) == PassPosts(p)[1].id[2]

\* C26: within one run, when the page content is the same in two
\* successive iterations and the clock has advanced between them, the
\* posts extracted again are dropped as duplicates: the final list holds
\* each element of the unchanged snapshot once.
C26_UnchangedSnapshotOnce ==
  cpc = "done" =>
    \A p \in 1..(ci - 1) :
      (/\ PassPosts(p) # <<>>
       /\ PassIndexes(p) = PassIndexes(p + 1)
       /\ PassClock(p) < PassClock(p + 1))
        => \A i \in PassIndexes(p) :
             Cardinality({k \in 1..Len(tweets) :
                            tweets[k].id[3] = i /\ tweets[k].pass \in {p, p + 1}}) <= 1

\* C28: for every sequence of start_browser and close_browser calls at most
\* one browser launched by the server is open at any time, and after
\* close_browser has returned no browser launched by an earlier
\* start_browser is still open.
C28_AtMostOneBrowser ==
  /\ Cardinality(open) <= 1
  /\ (result.tool = "close_browser" /\ result.ok) => open = {}

\* the latest call has ended with a rejected authentication check of
\* setupGoogleSheets and no call was started since
SetupJustFailed ==
  /\ pc[1] = "idle"
  /\ result.call = ncalls
  /\ result.error = "backend"
  /\ result.step = "setup"

\* C29: isReady is true only if a setupGoogleSheets call has completed
\* successfully; after a setup attempt whose authentication check failed
\* isReady is false and the next storage operation runs the setup again.
C29_ReadyOnlyAfterSetup ==
  /\ IsReady => verified
  /\ SetupJustFailed =>
       /\ ~IsReady
       /\ \A kind \in StorageKinds : NeedsSetup(kind)

\* every name some handler declares
DeclaredNames == UNION {ToolDefinitions(Handlers[k]) : k \in 1..Len(Handlers)}

\* C30: a call naming a tool none of the four handlers declares is reported
\* with MethodNotFound (no handler answers it), a failure inside a declared
\* tool is reported with InternalError, and every declared tool name is
\* handled by exactly one handler.
C30_UnknownToolNotFound ==
  /\ \A name \in OtherNames : name \notin DeclaredNames /\ Answering(name) = {}
  /\ result.error = "unknown" => result.code = "MethodNotFound"
  /\ result.error \notin {"none", "unknown"} => result.code = "InternalError"
  /\ \A name \in DeclaredNames :
       /\ Cardinality(Answering(name)) = 1
       /\ \A k \in Answering(name) : name \in ToolDefinitions(Handlers[k])

====
